---------------------------- MODULE Spec2Model ----------------------------
(***************************************************************************)
(* Model of blogicum/blog/views.py: the class-based views of the blog.     *)
(* The data store holds User, Category, Post and Comment rows; every view  *)
(* is one action that reads the request (acting user, HTTP method, URL     *)
(* kwargs, form fields), changes the rows as the view does and leaves the  *)
(* HTTP response in resp.                                                  *)
(***************************************************************************)
EXTENDS Integers, Sequences, FiniteSets, TLC

\* ------------------------------------------------------------------ bounds
MaxPosts == 2
MaxComments == 1
MaxTime == 1

\* ------------------------------------------------------- program constant
POST_PER_PAGE == 10

\* ------------------------------------------------------------ value sets
Usernames == {"alice", "bob"}
Anonymous == "AnonymousUser"
Actors == Usernames \cup {Anonymous}
Viewers == {"bob", Anonymous}
RequestedUsernames == Usernames \cup {"nobody"}
Names == {"n0", "n1"}
CategorySlugs == {"news", "draft"}
RequestedSlugs == CategorySlugs \cup {"ghost"}
NoCategory == "NULL"
Titles == {"a", "b"}
Texts == {"t0", "t1"}
Times == 0..MaxTime
Methods == {"GET", "POST"}
Pages == {1, 2}
PostIds == 1..MaxPosts
CommentIds == 1..MaxComments

\* Rank of a title in the ascending order the database sorts titles by.
TitleRank(t) == IF t = "a" THEN 1 ELSE 2

\* The fields PostForm writes to a Post row.
PostFields ==
    [title: Titles, pub_date: Times,
     category: CategorySlugs \cup {NoCategory}, is_published: BOOLEAN]

\* Post rows: the form fields plus the author stamped by the view.
PostRows ==
    [author: Usernames, title: Titles, pub_date: Times,
     category: CategorySlugs \cup {NoCategory}, is_published: BOOLEAN]

VARIABLES
    users,       \* username -> first_name of the User row
    categories,  \* slug -> is_published of the Category row
    posts,       \* post id -> Post row
    postSeq,     \* last id the Post table handed out
    comments,    \* comment id -> Comment row
    commentSeq,  \* last id the Comment table handed out
    datenow,     \* the module-level datenow, evaluated once at import
    now,         \* the wall clock
    resp,        \* the request just served and its response
    created      \* post id -> the user whose createPost made the row

vars == <<users, categories, posts, postSeq, comments, commentSeq,
          datenow, now, resp, created>>

\* ------------------------------------------------------------- responses
NoUrl == [view |-> "", id |-> 0, username |-> ""]
LoginUrl == [view |-> "login", id |-> 0, username |-> ""]
PostDetailUrl(id) == [view |-> "blog:post_detail", id |-> id, username |-> ""]
ProfileUrl(u) == [view |-> "blog:profile", id |-> 0, username |-> u]

\* op: the view; user, method, id, id2, name: the request (acting user, HTTP
\* method, integer URL kwargs, slug/username URL kwarg); at: the time the
\* request is served; kind, location, queryset, page: the response.
Response(op, user, method, id, id2, name, kind, location, queryset, page) ==
    [op |-> op, user |-> user, method |-> method, id |-> id, id2 |-> id2,
     name |-> name, at |-> now, kind |-> kind, location |-> location,
     queryset |-> queryset, page |-> page]

Idle ==
    [op |-> "", user |-> Anonymous, method |-> "GET", id |-> 0, id2 |-> 0,
     name |-> "", at |-> 0, kind |-> "", location |-> NoUrl,
     queryset |-> <<>>, page |-> <<>>]

\* ------------------------------------------------------------- querysets
\* annotate(comment_count=Count('comment'))
CommentCount(id) == Cardinality({c \in DOMAIN comments : comments[c].post = id})

\* order_by('-pub_date', 'title'): a may stand before b.
OrderedBefore(a, b) ==
    \/ posts[a].pub_date > posts[b].pub_date
    \/ /\ posts[a].pub_date = posts[b].pub_date
       /\ TitleRank(posts[a].title) <= TitleRank(posts[b].title)

\* Every order of the rows S the database may return for the order_by; rows
\* equal in both keys come in any order.
Orderings(S) ==
    {s \in [1..Cardinality(S) -> S] :
        /\ \A i, j \in 1..Cardinality(S) : i < j =>
              s[i] /= s[j] /\ OrderedBefore(s[i], s[j])}

Annotate(s) ==
    [i \in 1..Len(s) |-> [id |-> s[i], comment_count |-> CommentCount(s[i])]]

RowIds(q) == {q[i].id : i \in 1..Len(q)}

\* IndexListView.get_queryset: the filter of the home feed.
IndexFilter(id) ==
    /\ posts[id].pub_date <= datenow
    /\ posts[id].is_published
    /\ posts[id].category /= NoCategory
    /\ posts[id].category \in DOMAIN categories
    /\ categories[posts[id].category]

\* CategoryPostsListView.get_queryset: the category lookup succeeds.
CategoryFound(slug) == slug \in DOMAIN categories /\ categories[slug]

\* CategoryPostsListView.get_queryset: the filter of the category feed.
CategoryFilter(id, slug) ==
    /\ posts[id].pub_date <= datenow
    /\ posts[id].category = slug
    /\ posts[id].is_published

\* The author feed with the publish flag of the public feeds applied.
ProfileFilterPublished(id, username) ==
    posts[id].author = username /\ posts[id].is_published

\* ProfileListView.get_queryset: the filter of the author feed.
ProfileFilter(id, username) == posts[id].author = username

\* MultipleObjectMixin.paginate_queryset with paginate_by = POST_PER_PAGE.
NumPages(q) ==
    IF Len(q) = 0 THEN 1 ELSE (Len(q) + POST_PER_PAGE - 1) \div POST_PER_PAGE

PageValid(q, page) == page \in 1..NumPages(q)

PageOf(q, page) ==
    LET lo == (page - 1) * POST_PER_PAGE + 1
        hi == IF page * POST_PER_PAGE < Len(q) THEN page * POST_PER_PAGE ELSE Len(q)
    IN  SubSeq(q, lo, hi)

Listing(op, user, name, q, page) ==
    IF PageValid(q, page)
    THEN Response(op, user, "GET", page, 0, name, "Page", NoUrl, q, PageOf(q, page))
    ELSE Response(op, user, "GET", page, 0, name, "NotFound", NoUrl, q, <<>>)

NotFound(op, user, method, id, id2, name) ==
    Response(op, user, method, id, id2, name, "NotFound", NoUrl, <<>>, <<>>)

\* --------------------------------------------------------------- the feeds
db == <<users, categories, posts, postSeq, comments, commentSeq, created>>

\* GET / : IndexListView.
IndexList(user, page) ==
    /\ \E s \in Orderings({id \in DOMAIN posts : IndexFilter(id)}) :
          resp' = Listing("index", user, "", Annotate(s), page)
    /\ UNCHANGED <<db, datenow, now>>

\* GET /category/<slug>/ : CategoryPostsListView.
CategoryList(user, slug, page) ==
    /\ IF CategoryFound(slug)
       THEN \E s \in Orderings({id \in DOMAIN posts : CategoryFilter(id, slug)}) :
               resp' = Listing("category", user, slug, Annotate(s), page)
       ELSE resp' = NotFound("category", user, "GET", page, 0, slug)
    /\ UNCHANGED <<db, datenow, now>>

\* GET /profile/<username>/ : ProfileListView.
ProfileList(user, username, page) ==
    /\ IF username \in DOMAIN users
       THEN \E s \in Orderings({id \in DOMAIN posts : ProfileFilter(id, username)}) :
               resp' = Listing("profile", user, username, Annotate(s), page)
       ELSE resp' = NotFound("profile", user, "GET", page, 0, username)
    /\ UNCHANGED <<db, datenow, now>>

\* The wall clock advances; datenow was fixed when the module was imported.
Tick ==
    /\ now < MaxTime
    /\ now' = now + 1
    /\ UNCHANGED <<db, datenow, resp>>

\* ------------------------------------------------------------ feed system
\* The process starts at time 0 on a database that already holds rows.
PostTables ==
    UNION {[1..n -> PostRows] : n \in 0..MaxPosts}

CommentTables(ps) ==
    UNION {[1..n -> [author: {"alice"}, post: DOMAIN ps, text: {"t0"}]] :
              n \in 0..MaxComments}

InitFeed ==
    /\ users = [u \in Usernames |-> "n0"]
    /\ categories = [s \in CategorySlugs |-> s = "news"]
    /\ posts \in PostTables
    /\ postSeq = Len(posts)
    /\ comments \in CommentTables(posts)
    /\ commentSeq = Len(comments)
    /\ datenow = 0
    /\ now = 0
    /\ resp = Idle
    /\ created = [id \in DOMAIN posts |-> posts[id].author]

NextFeed ==
    \/ Tick
    \/ \E u \in Viewers, pg \in Pages : IndexList(u, pg)
    \/ \E u \in Viewers, s \in RequestedSlugs, pg \in Pages : CategoryList(u, s, pg)
    \/ \E u \in Viewers, n \in RequestedUsernames, pg \in Pages : ProfileList(u, n, pg)

SpecFeed == InitFeed /\ [][NextFeed]_vars

\* ------------------------------------------------------ mutation responses
LoginRedirect(op, user, method, id, id2, name) ==
    Response(op, user, method, id, id2, name, "LoginRedirect", LoginUrl, <<>>, <<>>)

Redirect(op, user, method, id, id2, name, location) ==
    Response(op, user, method, id, id2, name, "Redirect", location, <<>>, <<>>)

Render(op, user, method, id, id2, name) ==
    Response(op, user, method, id, id2, name, "Render", NoUrl, <<>>, <<>>)

\* LoginRequiredMixin.dispatch: request.user.is_authenticated.
IsAuthenticated(user) == user /= Anonymous

\* The row a PostForm saves once form_valid has stamped the author.
PostRow(user, f) ==
    [author |-> user, title |-> f.title, pub_date |-> f.pub_date,
     category |-> f.category, is_published |-> f.is_published]

\* Comment rows go with their post when the post is deleted.
CascadeComments(cs, post_id) ==
    [c \in {d \in DOMAIN cs : cs[d].post /= post_id} |-> cs[c]]

\* ---------------------------------------------------------------- profile
\* ProfilUpdateView.get_queryset and get_object: the row the view edits.
ProfileFound(user, username) == username \in DOMAIN users

\* /profile/<username>/edit/ : ProfilUpdateView.
UpdateProfile(user, method, username, first_name) ==
    /\ IF ~IsAuthenticated(user)
       THEN /\ resp' = LoginRedirect("updateProfile", user, method, 0, 0, username)
            /\ UNCHANGED users
       ELSE IF ~ProfileFound(user, username)
       THEN /\ resp' = NotFound("updateProfile", user, method, 0, 0, username)
            /\ UNCHANGED users
       ELSE IF method = "GET"
       THEN /\ resp' = Render("updateProfile", user, method, 0, 0, username)
            /\ UNCHANGED users
       ELSE /\ users' = [users EXCEPT ![username] = first_name]
            /\ resp' = Redirect("updateProfile", user, method, 0, 0, username,
                                ProfileUrl(user))
    /\ UNCHANGED <<categories, posts, postSeq, comments, commentSeq,
                   datenow, now, created>>

\* ------------------------------------------------------------------ posts
\* /posts/create/ : CreatePostCreateView.
CreatePost(user, method, f) ==
    /\ IF ~IsAuthenticated(user)
       THEN /\ resp' = LoginRedirect("createPost", user, method, 0, 0, "")
            /\ UNCHANGED <<posts, postSeq, created>>
       ELSE IF method = "GET"
       THEN /\ resp' = Render("createPost", user, method, 0, 0, "")
            /\ UNCHANGED <<posts, postSeq, created>>
       ELSE /\ postSeq < MaxPosts
            /\ postSeq' = postSeq + 1
            /\ posts' = [id \in DOMAIN posts \cup {postSeq + 1} |->
                            IF id = postSeq + 1 THEN PostRow(user, f) ELSE posts[id]]
            /\ created' = [id \in DOMAIN created \cup {postSeq + 1} |->
                            IF id = postSeq + 1 THEN user ELSE created[id]]
            /\ resp' = Redirect("createPost", user, method, 0, 0, "", ProfileUrl(user))
    /\ UNCHANGED <<users, categories, comments, commentSeq, datenow, now>>

\* The guard turning away anonymous users alone.
PostOwnerDeniedAnonymousOnly(user, post_id) == ~IsAuthenticated(user)

\* The guard with the comparison inverted.
PostOwnerDeniedInverted(user, post_id) == user = posts[post_id].author

\* EditPostUpdateView.dispatch / DeletePostDeleteView.dispatch:
\* request.user != posts.author.
PostOwnerDenied(user, post_id) == user /= posts[post_id].author

\* /posts/<post_id>/edit/ : EditPostUpdateView.
UpdatePost(user, method, post_id, f) ==
    /\ IF post_id \notin DOMAIN posts
       THEN /\ resp' = NotFound("updatePost", user, method, post_id, 0, "")
            /\ UNCHANGED posts
       ELSE IF PostOwnerDenied(user, post_id)
       THEN /\ resp' = Redirect("updatePost", user, method, post_id, 0, "",
                                PostDetailUrl(post_id))
            /\ UNCHANGED posts
       ELSE IF ~IsAuthenticated(user)
       THEN /\ resp' = LoginRedirect("updatePost", user, method, post_id, 0, "")
            /\ UNCHANGED posts
       ELSE IF method = "GET"
       THEN /\ resp' = Render("updatePost", user, method, post_id, 0, "")
            /\ UNCHANGED posts
       ELSE /\ posts' = [posts EXCEPT ![post_id] = PostRow(user, f)]
            /\ resp' = Redirect("updatePost", user, method, post_id, 0, "",
                                PostDetailUrl(post_id))
    /\ UNCHANGED <<users, categories, postSeq, comments, commentSeq,
                   datenow, now, created>>

\* /posts/<post_id>/delete/ : DeletePostDeleteView.
DeletePost(user, method, post_id) ==
    /\ IF post_id \notin DOMAIN posts
       THEN /\ resp' = NotFound("deletePost", user, method, post_id, 0, "")
            /\ UNCHANGED <<posts, comments>>
       ELSE IF PostOwnerDenied(user, post_id)
       THEN /\ resp' = Redirect("deletePost", user, method, post_id, 0, "",
                                PostDetailUrl(post_id))
            /\ UNCHANGED <<posts, comments>>
       ELSE IF ~IsAuthenticated(user)
       THEN /\ resp' = LoginRedirect("deletePost", user, method, post_id, 0, "")
            /\ UNCHANGED <<posts, comments>>
       ELSE IF method = "GET"
       THEN /\ resp' = Render("deletePost", user, method, post_id, 0, "")
            /\ UNCHANGED <<posts, comments>>
       ELSE /\ posts' = [id \in DOMAIN posts \ {post_id} |-> posts[id]]
            /\ comments' = CascadeComments(comments, post_id)
            /\ resp' = Redirect("deletePost", user, method, post_id, 0, "",
                                ProfileUrl(user))
    /\ UNCHANGED <<users, categories, postSeq, commentSeq, datenow, now, created>>

\* --------------------------------------------------------------- comments
\* CommentCreateView with the login check ahead of the post lookup.
CreateCommentLoginFirst(user, method, post_id, text) ==
    /\ IF ~IsAuthenticated(user)
       THEN /\ resp' = LoginRedirect("createComment", user, method, post_id, 0, "")
            /\ UNCHANGED <<comments, commentSeq>>
       ELSE IF post_id \notin DOMAIN posts
       THEN /\ resp' = NotFound("createComment", user, method, post_id, 0, "")
            /\ UNCHANGED <<comments, commentSeq>>
       ELSE IF method = "GET"
       THEN /\ resp' = Render("createComment", user, method, post_id, 0, "")
            /\ UNCHANGED <<comments, commentSeq>>
       ELSE /\ commentSeq < MaxComments
            /\ commentSeq' = commentSeq + 1
            /\ comments' = [c \in DOMAIN comments \cup {commentSeq + 1} |->
                              IF c = commentSeq + 1
                              THEN [author |-> user, post |-> post_id, text |-> text]
                              ELSE comments[c]]
            /\ resp' = Redirect("createComment", user, method, post_id, 0, "",
                                PostDetailUrl(post_id))
    /\ UNCHANGED <<users, categories, posts, postSeq, datenow, now, created>>

\* /posts/<post_id>/comment/ : CommentCreateView.
CreateComment(user, method, post_id, text) ==
    /\ IF post_id \notin DOMAIN posts
       THEN /\ resp' = NotFound("createComment", user, method, post_id, 0, "")
            /\ UNCHANGED <<comments, commentSeq>>
       ELSE IF ~IsAuthenticated(user)
       THEN /\ resp' = LoginRedirect("createComment", user, method, post_id, 0, "")
            /\ UNCHANGED <<comments, commentSeq>>
       ELSE IF method = "GET"
       THEN /\ resp' = Render("createComment", user, method, post_id, 0, "")
            /\ UNCHANGED <<comments, commentSeq>>
       ELSE /\ commentSeq < MaxComments
            /\ commentSeq' = commentSeq + 1
            /\ comments' = [c \in DOMAIN comments \cup {commentSeq + 1} |->
                              IF c = commentSeq + 1
                              THEN [author |-> user, post |-> post_id, text |-> text]
                              ELSE comments[c]]
            /\ resp' = Redirect("createComment", user, method, post_id, 0, "",
                                PostDetailUrl(post_id))
    /\ UNCHANGED <<users, categories, posts, postSeq, datenow, now, created>>

\* EditCommentUpdateView.dispatch / DeleteCommentDeleteView.dispatch:
\* request.user != posts.author, posts being the Comment row.
CommentOwnerDenied(user, comment_id) == user /= comments[comment_id].author

\* redirect('blog:post_detail', id=posts.pk), posts being the Comment row.
CommentDeniedUrl(comment_id) == PostDetailUrl(comment_id)

\* /posts/<post_id>/edit_comment/<comment_id>/ : EditCommentUpdateView.
UpdateComment(user, method, post_id, comment_id, text) ==
    /\ IF comment_id \notin DOMAIN comments
       THEN /\ resp' = NotFound("updateComment", user, method, post_id, comment_id, "")
            /\ UNCHANGED comments
       ELSE IF CommentOwnerDenied(user, comment_id)
       THEN /\ resp' = Redirect("updateComment", user, method, post_id, comment_id, "",
                                CommentDeniedUrl(comment_id))
            /\ UNCHANGED comments
       ELSE IF ~IsAuthenticated(user)
       THEN /\ resp' = LoginRedirect("updateComment", user, method, post_id, comment_id, "")
            /\ UNCHANGED comments
       ELSE IF method = "GET"
       THEN /\ resp' = Render("updateComment", user, method, post_id, comment_id, "")
            /\ UNCHANGED comments
       ELSE /\ comments' = [comments EXCEPT ![comment_id].text = text]
            /\ resp' = Redirect("updateComment", user, method, post_id, comment_id, "",
                                PostDetailUrl(post_id))
    /\ UNCHANGED <<users, categories, posts, postSeq, commentSeq,
                   datenow, now, created>>

\* /posts/<post_id>/delete_comment/<comment_id>/ : DeleteCommentDeleteView.
DeleteComment(user, method, post_id, comment_id) ==
    /\ IF comment_id \notin DOMAIN comments
       THEN /\ resp' = NotFound("deleteComment", user, method, post_id, comment_id, "")
            /\ UNCHANGED comments
       ELSE IF CommentOwnerDenied(user, comment_id)
       THEN /\ resp' = Redirect("deleteComment", user, method, post_id, comment_id, "",
                                CommentDeniedUrl(comment_id))
            /\ UNCHANGED comments
       ELSE IF ~IsAuthenticated(user)
       THEN /\ resp' = LoginRedirect("deleteComment", user, method, post_id, comment_id, "")
            /\ UNCHANGED comments
       ELSE IF method = "GET"
       THEN /\ resp' = Render("deleteComment", user, method, post_id, comment_id, "")
            /\ UNCHANGED comments
       ELSE /\ comments' = [c \in DOMAIN comments \ {comment_id} |-> comments[c]]
            /\ resp' = Redirect("deleteComment", user, method, post_id, comment_id, "",
                                PostDetailUrl(post_id))
    /\ UNCHANGED <<users, categories, posts, postSeq, commentSeq,
                   datenow, now, created>>

\* -------------------------------------------------------- mutation system
\* The forms the clients submit: posts differ in their title.
SubmittedPosts ==
    {f \in PostFields : f.pub_date = 0 /\ f.category = "news" /\ f.is_published}

Init ==
    /\ users = [u \in Usernames |-> "n0"]
    /\ categories = [s \in CategorySlugs |-> s = "news"]
    /\ posts = <<>>
    /\ postSeq = 0
    /\ comments = <<>>
    /\ commentSeq = 0
    /\ datenow = 0
    /\ now = 0
    /\ resp = Idle
    /\ created = <<>>

Next ==
    \/ \E u \in Actors, m \in Methods, n \in RequestedUsernames, v \in Names :
          UpdateProfile(u, m, n, v)
    \/ \E u \in Actors, m \in Methods, f \in SubmittedPosts : CreatePost(u, m, f)
    \/ \E u \in Actors, m \in Methods, p \in PostIds, f \in SubmittedPosts :
          UpdatePost(u, m, p, f)
    \/ \E u \in Actors, m \in Methods, p \in PostIds : DeletePost(u, m, p)
    \/ \E u \in Actors, m \in Methods, p \in PostIds, t \in Texts :
          CreateComment(u, m, p, t)
    \/ \E u \in Actors, m \in Methods, p \in PostIds, c \in CommentIds, t \in Texts :
          UpdateComment(u, m, p, c, t)
    \/ \E u \in Actors, m \in Methods, p \in PostIds, c \in CommentIds :
          DeleteComment(u, m, p, c)

Spec == Init /\ [][Next]_vars

\* The post views alone: createPost, updatePost and deletePost.
NextPosts ==
    \/ \E u \in Actors, m \in Methods, f \in SubmittedPosts : CreatePost(u, m, f)
    \/ \E u \in Actors, m \in Methods, p \in PostIds, f \in SubmittedPosts :
          UpdatePost(u, m, p, f)
    \/ \E u \in Actors, m \in Methods, p \in PostIds : DeletePost(u, m, p)

SpecPosts == Init /\ [][NextPosts]_vars

\* ================================================================ claims
rows == <<users, posts, comments>>

\* The posts the visibility rule of the specification shows at time t.
PubliclyVisible(id, t) ==
    /\ posts[id].is_published
    /\ posts[id].pub_date <= t
    /\ \/ posts[id].category = NoCategory
       \/ /\ posts[id].category \in DOMAIN categories
          /\ categories[posts[id].category]

\* C1: a post is in the home feed served at time t iff it is published, its
\* pub_date is at most t, and it has no category or a published category.
C1_HomeFeedIffVisible ==
    resp.op = "index" =>
        \A id \in DOMAIN posts :
            id \in RowIds(resp.queryset) <=> PubliclyVisible(id, resp.at)

\* C2: an anonymous request to a mutation view on an existing resource is
\* answered with the redirect to login, never with the ownership redirect,
\* and changes no row.
C2_AnonymousGetsLoginRedirect ==
    [][LET r == resp'
           exists ==
               CASE r.op \in {"updatePost", "deletePost", "createComment"} ->
                        r.id \in DOMAIN posts
                 [] r.op \in {"updateComment", "deleteComment"} ->
                        r.id2 \in DOMAIN comments
                 [] r.op = "updateProfile" -> r.name \in DOMAIN users
                 [] r.op = "createPost" -> TRUE
                 [] OTHER -> FALSE
       IN  (r.user = Anonymous /\ exists) =>
               r.kind = "LoginRedirect" /\ rows' = rows]_vars

\* C3: updateProfile by an authenticated user on another existing user's
\* username answers NotFound and leaves that User row unchanged.
C3_ProfileOnlyOwn ==
    [][LET r == resp'
       IN  (/\ r.op = "updateProfile"
            /\ r.user \in DOMAIN users
            /\ r.name \in DOMAIN users
            /\ r.name /= r.user) =>
               r.kind = "NotFound" /\ users'[r.name] = users[r.name]]_vars

\* C4: updatePost and deletePost by an authenticated user who is not the
\* author redirect to the post's detail page and leave the post rows as
\* they were.
C4_ForeignPostRedirectsUnchanged ==
    [][LET r == resp'
       IN  (/\ r.op \in {"updatePost", "deletePost"}
            /\ r.user \in DOMAIN users
            /\ r.id \in DOMAIN posts
            /\ posts[r.id].author /= r.user) =>
               /\ r.kind = "Redirect"
               /\ r.location = PostDetailUrl(r.id)
               /\ posts' = posts]_vars

\* A non-author's POST to deletePost was answered and the post is there.
C4_Witness ==
    /\ resp.op = "deletePost"
    /\ resp.method = "POST"
    /\ resp.user = "bob"
    /\ resp.id \in DOMAIN posts
    /\ posts[resp.id].author = "alice"
    /\ resp.location = PostDetailUrl(resp.id)

\* C5: updateComment and deleteComment by an authenticated user who is not
\* the comment's author leave the comment unchanged and redirect to the
\* detail page of the comment's parent post.
C5_ForeignCommentRedirectsToParent ==
    [][LET r == resp'
       IN  (/\ r.op \in {"updateComment", "deleteComment"}
            /\ r.user \in DOMAIN users
            /\ r.id2 \in DOMAIN comments
            /\ comments[r.id2].author /= r.user) =>
               /\ comments' = comments
               /\ r.kind = "Redirect"
               /\ r.location = PostDetailUrl(comments[r.id2].post)]_vars

\* C6: a published post of a published category whose pub_date lies after
\* the process start is in every home and category feed served at or after
\* its pub_date.
C6_CutoffIsRequestTime ==
    resp.op \in {"index", "category"} =>
        \A id \in DOMAIN posts :
            (/\ posts[id].is_published
             /\ posts[id].category \in DOMAIN categories
             /\ categories[posts[id].category]
             /\ posts[id].pub_date > datenow
             /\ resp.at >= posts[id].pub_date
             /\ resp.op = "category" => posts[id].category = resp.name)
            => id \in RowIds(resp.queryset)

\* C7: the category feed answers NotFound for a missing or unpublished
\* category, and otherwise holds exactly the published posts of that
\* category whose pub_date is at most the request time.
C7_CategoryFeedExact ==
    resp.op = "category" =>
        IF resp.name \in DOMAIN categories /\ categories[resp.name]
        THEN RowIds(resp.queryset) =
                {id \in DOMAIN posts :
                    /\ posts[id].category = resp.name
                    /\ posts[id].is_published
                    /\ posts[id].pub_date <= resp.at}
        ELSE resp.kind = "NotFound"

\* C8: the author feed of an existing user holds exactly that user's posts,
\* each once, whatever their publish flag, pub_date and category and whoever
\* asks; for a username without a user it answers NotFound.
C8_AuthorFeedExact ==
    resp.op = "profile" =>
        IF resp.name \in DOMAIN users
        THEN /\ RowIds(resp.queryset) =
                    {id \in DOMAIN posts : posts[id].author = resp.name}
             /\ Len(resp.queryset) = Cardinality(RowIds(resp.queryset))
             /\ (resp.id = 1 /\ Len(resp.queryset) <= POST_PER_PAGE) =>
                    resp.kind = "Page" /\ resp.page = resp.queryset
        ELSE resp.kind = "NotFound"

\* Another user sees, in alice's feed, a post that is unpublished, dated in
\* the future and in an unpublished category, while bob's post is left out.
C8_Witness ==
    /\ resp.op = "profile"
    /\ resp.name = "alice"
    /\ resp.user /= "alice"
    /\ resp.kind = "Page"
    /\ \E id \in RowIds(resp.page) :
          /\ ~posts[id].is_published
          /\ posts[id].pub_date > resp.at
          /\ posts[id].category = "draft"
    /\ \E id \in DOMAIN posts : posts[id].author = "bob"

\* C9: every existing post's author is the user who created it.
C9_AuthorIsCreator ==
    \A id \in DOMAIN posts : posts[id].author = created[id]

\* The author's POST to updatePost changed the post after another user had
\* created a post of their own.
C9_Witness ==
    /\ resp.op = "updatePost"
    /\ resp.method = "POST"
    /\ resp.kind = "Redirect"
    /\ resp.id \in DOMAIN posts
    /\ resp.user = posts[resp.id].author
    /\ posts[resp.id].title = "b"
    /\ \E id \in DOMAIN posts : posts[id].author /= resp.user

\* C10: updatePost, deletePost and createComment on a post id without a row,
\* and updateComment and deleteComment on a comment id without a row, answer
\* NotFound for every acting user, anonymous included, and change no row.
C10_LookupBeforeLogin ==
    [][LET r == resp'
       IN  (\/ /\ r.op \in {"updatePost", "deletePost", "createComment"}
               /\ r.id \notin DOMAIN posts
            \/ /\ r.op \in {"updateComment", "deleteComment"}
               /\ r.id2 \notin DOMAIN comments) =>
               r.kind = "NotFound" /\ rows' = rows]_vars

\* An anonymous POST to createComment on a missing post was answered
\* NotFound.
C10_Witness ==
    /\ resp.op = "createComment"
    /\ resp.method = "POST"
    /\ resp.user = Anonymous
    /\ resp.id \notin DOMAIN posts
    /\ resp.kind = "NotFound"

=============================================================================
